---- MODULE Spec2Model ----
(***************************************************************************)
(* A model of three pieces of pyface:                                      *)
(*   - the Qt API selector that runs when pyface.qt is imported            *)
(*     (pyface/qt/__init__.py),                                            *)
(*   - the get_color convenience function (pyface/color_dialog.py),        *)
(*   - ColumnDataModel with its row-info tree and the default channel      *)
(*     methods of AbstractValueType (pyface/data_view/...).                *)
(* Each piece has its own specification over the same variables (SpecQt,   *)
(* SpecColor, and SpecRows, SpecChannels and SpecEvents for the data       *)
(* view); the variables of the other pieces stay at rest.                  *)
(***************************************************************************)
EXTENDS Integers, Sequences, FiniteSets, TLC

VARIABLES
    \* ---- pyface/qt/__init__.py --------------------------------------
    sys_modules,   \* the set of module names in sys.modules
    environ,       \* os.environ restricted to QT_API: a function on {} or {"QT_API"}
    importable,    \* the modules importlib.import_module can import
    qt_api,        \* the module global qt_api (a Python value)
    qt_pc,         \* position of the module's top-level code
    qt_exc,        \* the exception module initialisation ended with, or "None"
    import_log,    \* the modules the selector has called import_module / import on
    sip_api,       \* the API versions set through sip.setapi
    \* ---- pyface/color_dialog.py -------------------------------------
    cd_args,       \* the arguments get_color was called with
    dialog,        \* the ColorDialog get_color built: its traits
    cd_result,     \* what dialog.open() returned
    cd_return,     \* what get_color returned
    cd_pc,         \* position inside get_color
    \* ---- pyface/data_view ------------------------------------------
    row_info,      \* ColumnDataModel.row_info: the root of the row-info tree
    data,          \* ColumnDataModel.data: the list of objects shown in columns
    dv_call,       \* the call in progress: method, arguments and its result
    dv_pc,         \* "idle", or "called" when a call has just returned or raised
    ev             \* the updated event being fired in the row-info tree, or <<>>

qtVars == <<sys_modules, environ, importable, qt_api, qt_pc, qt_exc, import_log, sip_api>>
cdVars == <<cd_args, dialog, cd_result, cd_return, cd_pc>>
dvVars == <<row_info, data, dv_call, dv_pc, ev>>
vars == <<qtVars, cdVars, dvVars>>

(***************************************************************************)
(* Python values.  Every Python value is a tagged record so that values of *)
(* different Python types can be compared.                                 *)
(***************************************************************************)
PyNone == [t |-> "NoneType"]
PyStr(s) == [t |-> "str", v |-> s]
PyBool(b) == [t |-> "bool", v |-> b]

(***************************************************************************)
(*                     pyface/qt/__init__.py                               *)
(***************************************************************************)

\* QtAPIs, in order: (api_name, module)
QtAPIs == << <<"pyside", "PySide">>, <<"pyqt5", "PyQt5">>, <<"pyqt", "PyQt4">> >>

QtModules == {QtAPIs[i][2] : i \in DOMAIN QtAPIs}

\* {api_name for api_name, module in QtAPIs}
QtApiNames == {QtAPIs[i][1] : i \in DOMAIN QtAPIs}

\* The values of QT_API the model draws from: the three valid names, a name
\* of the wrong case, an unknown name and the empty string.
QtApiEnvValues == {"pyside", "pyqt5", "pyqt", "PyQt5", "wx", ""}

\* os.environ.get('QT_API')
EnvironGet(env, key) == IF key \in DOMAIN env THEN PyStr(env[key]) ELSE PyNone

\* The QDate ... QVariant names prepare_pyqt4 sets to version 2.
SipApiNames == {"QDate", "QDateTime", "QString", "QTextStream", "QTime", "QUrl", "QVariant"}

\* The other pieces at rest.
CdRest ==
    /\ cd_args = <<>>
    /\ dialog = <<>>
    /\ cd_result = "None"
    /\ cd_return = PyNone
    /\ cd_pc = "off"

DvRest ==
    /\ row_info = <<>>
    /\ data = <<>>
    /\ dv_call = <<>>
    /\ dv_pc = "off"
    /\ ev = <<>>

QtInit ==
    /\ CdRest
    /\ DvRest
    /\ sys_modules \in SUBSET (QtModules \cup {"sip"})
    /\ environ \in {<<>>} \cup {[k \in {"QT_API"} |-> v] : v \in QtApiEnvValues}
    /\ importable \in SUBSET (QtModules \cup {"sip"})
    /\ sys_modules \subseteq importable   \* importing a loaded module succeeds
    /\ qt_api = PyNone
    /\ qt_pc = "scan"
    /\ qt_exc = "None"
    /\ import_log = <<>>
    /\ sip_api = <<>>

QtRest ==
    /\ sys_modules = {}
    /\ environ = <<>>
    /\ importable = {}
    /\ qt_api = PyNone
    /\ qt_pc = "off"
    /\ qt_exc = "None"
    /\ import_log = <<>>
    /\ sip_api = <<>>

\* Indices of the Qt modules already in sys.modules
Loaded == {i \in DOMAIN QtAPIs : QtAPIs[i][2] \in sys_modules}

Min(S) == CHOOSE x \in S : \A y \in S : x <= y

\* Where control goes after the first loop: the if / elif of lines 45 and 57.
Dispatch(api) ==
    IF api = PyNone THEN "import1" ELSE "validate"

\* A mutant of ScanSysModules: the environment is asked first, sys.modules
\* only when QT_API is unset.
ScanEnvironFirst ==
    /\ qt_pc = "scan"
    /\ LET found == IF "QT_API" \in DOMAIN environ THEN EnvironGet(environ, "QT_API")
                    ELSE IF Loaded # {} THEN PyStr(QtAPIs[Min(Loaded)][1])
                    ELSE PyNone
       IN /\ qt_api' = found
          /\ qt_pc' = Dispatch(found)
    /\ UNCHANGED <<sys_modules, environ, importable, qt_exc, import_log, sip_api>>
    /\ UNCHANGED <<cdVars, dvVars>>

\* Lines 36-42: have we already imported a Qt API?  The for loop breaks at
\* the first module found in sys.modules; its else clause (no break) reads
\* the environment.
ScanSysModules ==
    /\ qt_pc = "scan"
    /\ LET found == IF Loaded # {} THEN PyStr(QtAPIs[Min(Loaded)][1])
                    ELSE EnvironGet(environ, "QT_API")
       IN /\ qt_api' = found
          /\ qt_pc' = Dispatch(found)
    /\ UNCHANGED <<sys_modules, environ, importable, qt_exc, import_log, sip_api>>
    /\ UNCHANGED <<cdVars, dvVars>>

\* What the try body of lines 48-50 does for one module: the import raises
\* ImportError, or succeeds and the body leaves through break.  The body
\* never ends normally.
TryBody(module) ==
    IF module \in importable THEN "break" ELSE "ImportError"

LoopPc(i) == "import" \o ToString(i)

\* Lines 46-54, one iteration of the loop for QtAPIs[i].  The else clause of
\* line 53 belongs to the try statement: it runs only when the try body ends
\* normally.  When the loop runs out of modules nothing is raised and
\* control falls to line 63.
TryImport(i) ==
    /\ qt_pc = LoopPc(i)
    /\ LET api_name == QtAPIs[i][1]
           module == QtAPIs[i][2]
           outcome == TryBody(module)
       IN /\ import_log' = Append(import_log, module)
          /\ CASE outcome = "break" ->
                    /\ sys_modules' = sys_modules \cup {module}
                    /\ qt_api' = PyStr(api_name)
                    /\ qt_pc' = "prepare"
                    /\ qt_exc' = qt_exc
               [] outcome = "ImportError" ->
                    /\ qt_pc' = IF i < Len(QtAPIs) THEN LoopPc(i + 1) ELSE "prepare"
                    /\ UNCHANGED <<sys_modules, qt_api, qt_exc>>
               [] OTHER ->
                    /\ qt_pc' = "raised"
                    /\ qt_exc' = "ImportError"
                    /\ UNCHANGED <<sys_modules, qt_api>>
    /\ UNCHANGED <<environ, importable, sip_api>>
    /\ UNCHANGED <<cdVars, dvVars>>

\* A mutant of Validate: the value of QT_API is taken without the check.
ValidateUnchecked ==
    /\ qt_pc = "validate"
    /\ qt_pc' = "prepare"
    /\ UNCHANGED <<sys_modules, environ, importable, qt_api, qt_exc, import_log, sip_api>>
    /\ UNCHANGED <<cdVars, dvVars>>

\* Lines 57-60: otherwise check QT_API value is valid.
Validate ==
    /\ qt_pc = "validate"
    /\ IF qt_api.v \notin QtApiNames
       THEN /\ qt_pc' = "raised"
            /\ qt_exc' = "RuntimeError"
       ELSE /\ qt_pc' = "prepare"
            /\ qt_exc' = qt_exc
    /\ UNCHANGED <<sys_modules, environ, importable, qt_api, import_log, sip_api>>
    /\ UNCHANGED <<cdVars, dvVars>>

\* Lines 22-31 and 63-65: for 'pyqt', import sip and set the PySide
\* compatible APIs.  The import of sip raises ImportError when sip cannot
\* be imported.
PreparePyqt4 ==
    /\ qt_pc = "prepare"
    /\ IF qt_api = PyStr("pyqt")
       THEN /\ import_log' = Append(import_log, "sip")
            /\ IF "sip" \in importable
               THEN /\ sys_modules' = sys_modules \cup {"sip"}
                    /\ sip_api' = [n \in SipApiNames |-> 2]
                    /\ qt_pc' = "done"
                    /\ qt_exc' = qt_exc
               ELSE /\ qt_pc' = "raised"
                    /\ qt_exc' = "ImportError"
                    /\ UNCHANGED <<sys_modules, sip_api>>
       ELSE /\ qt_pc' = "done"
            /\ UNCHANGED <<sys_modules, sip_api, import_log, qt_exc>>
    /\ UNCHANGED <<environ, importable, qt_api>>
    /\ UNCHANGED <<cdVars, dvVars>>

QtNext ==
    \/ ScanSysModules
    \/ \E i \in DOMAIN QtAPIs : TryImport(i)
    \/ Validate
    \/ PreparePyqt4

(***************************************************************************)
(*                     pyface/color_dialog.py                              *)
(***************************************************************************)

\* The toolkit controls a caller may pass as parent (None: no parent).
Parents == {"None", "window1", "window2"}

\* The colours a caller may pass and a user may select.
Colors == {"red", "green", "blue"}

PyColor(c) == [t |-> "Color", v |-> c]

\* The return codes of Dialog.open() (pyface.constant).
OK == "OK"
DialogResults == {"OK", "CANCEL", "YES", "NO"}

CdInit ==
    /\ QtRest
    /\ DvRest
    /\ cd_args \in [parent : Parents, color : Colors, show_alpha : BOOLEAN]
    /\ dialog = <<>>
    /\ cd_result = "None"
    /\ cd_return = PyNone
    /\ cd_pc = "call"

\* Line 38: the traits get_color passes to the ColorDialog constructor.
DialogTraits(parent, color, show_alpha) ==
    [color |-> PyColor(color)]

\* Line 38: dialog = ColorDialog(color=color)
Construct ==
    /\ cd_pc = "call"
    /\ dialog' = DialogTraits(cd_args.parent, cd_args.color, cd_args.show_alpha)
    /\ cd_pc' = "constructed"
    /\ UNCHANGED <<cd_args, cd_result, cd_return>>
    /\ UNCHANGED <<qtVars, dvVars>>

\* Line 39: result = dialog.open().  The modal dialog runs: the user may
\* select any colour, and the dialog closes with one of the return codes.
Open ==
    /\ cd_pc = "constructed"
    /\ \E c \in Colors, r \in DialogResults :
          /\ dialog' = [dialog EXCEPT !.color = PyColor(c)]
          /\ cd_result' = r
    /\ cd_pc' = "opened"
    /\ UNCHANGED <<cd_args, cd_return>>
    /\ UNCHANGED <<qtVars, dvVars>>

\* A mutant of ReturnValue: the dialog's colour whatever open() returned.
ReturnValueAnyResult(result, dlg) ==
    dlg.color

\* Lines 40-43: the value get_color returns.
ReturnValue(result, dlg) ==
    IF result = OK THEN dlg.color ELSE PyNone

\* Lines 40-43
Return ==
    /\ cd_pc = "opened"
    /\ cd_return' = ReturnValue(cd_result, dialog)
    /\ cd_pc' = "returned"
    /\ UNCHANGED <<cd_args, dialog, cd_result>>
    /\ UNCHANGED <<qtVars, dvVars>>

CdNext ==
    \/ Construct
    \/ Open
    \/ Return

(***************************************************************************)
(*     pyface/data_view: row infos, ColumnDataModel, AbstractValueType     *)
(***************************************************************************)

\* The largest number of row infos in the tree when the methods of
\* ColumnDataModel are called.
MaxNodes == 3

\* The largest number of row infos in the tree when the channel methods of
\* AbstractValueType are called: each call reads one row info, and a root
\* with a child row gives row paths of both shapes.
MaxChannelNodes == 2

PyInt(n) == [t |-> "int", v |-> n]

\* A dict: its items as <<key, value>> pairs in insertion order.
PyDict(items) == [t |-> "dict", v |-> items]

\* An AbstractValueType instance, by name.
PyValueType(name) == [t |-> "AbstractValueType", v |-> name]

\* How a call ends: it returns a value or raises an exception.
Ret(v) == [outcome |-> "return", value |-> v, exc |-> "None"]
Raise(e) == [outcome |-> "raise", value |-> PyNone, exc |-> e]

\* Python sequence indexing seq[i]: negative indices count from the end.
InRange(seq, i) == -Len(seq) <= i /\ i < Len(seq)
PyItem(seq, i) == IF i >= 0 THEN seq[i + 1] ELSE seq[Len(seq) + i + 1]

\* dict.get(key, None)
DictGet(items, key) ==
    IF \E k \in DOMAIN items : items[k][1] = key
    THEN items[CHOOSE k \in DOMAIN items : items[k][1] = key][2]
    ELSE PyNone

\* dict[key] = value
DictSet(items, key, value) ==
    IF \E k \in DOMAIN items : items[k][1] = key
    THEN [k \in DOMAIN items |-> IF items[k][1] = key THEN <<key, value>> ELSE items[k]]
    ELSE Append(items, <<key, value>>)

\* repr() of the values the model holds
RECURSIVE ReprItems(_, _)
Repr(v) ==
    CASE v.t = "NoneType" -> "None"
      [] v.t = "str" -> "'" \o v.v \o "'"
      [] v.t = "dict" -> "{" \o ReprItems(v.v, 1) \o "}"
      [] OTHER -> "<" \o v.t \o ">"
ReprItems(items, k) ==
    IF k > Len(items) THEN ""
    ELSE "'" \o items[k][1] \o "': " \o Repr(items[k][2])
         \o (IF k < Len(items) THEN ", " ELSE "") \o ReprItems(items, k + 1)

\* str(value)
StrOf(v) == IF v.t = "str" THEN v.v ELSE Repr(v)

\* xgetattr(obj, xname, default) of traits.trait_base, for names without dots:
\* getattr(obj, xname, default).  An object is a function from the names of
\* its attributes to their values; no attribute is named ''.
xgetattr(obj, xname, default) ==
    IF xname \in DOMAIN obj THEN obj[xname] ELSE default

\* xsetattr(obj, xname, value), for names without dots: setattr.
xsetattr(obj, xname, value) ==
    [n \in DOMAIN obj \cup {xname} |-> IF n = xname THEN value ELSE obj[n]]

\* ---- the row infos --------------------------------------------------

\* The row infos the model builds trees from: the traits title, value, key,
\* title_type and value_type of a HasTraitsRowInfo or DictRowInfo.  The
\* second is a header row: no title text and no value name.
RowInfoMenu == {
    [cls |-> "HasTraitsRowInfo", title |-> "Name", value |-> "name", key |-> "",
     title_type |-> PyValueType("TextValue"), value_type |-> PyValueType("vtA")],
    [cls |-> "HasTraitsRowInfo", title |-> "", value |-> "", key |-> "",
     title_type |-> PyValueType("TextValue"), value_type |-> PyNone],
    [cls |-> "DictRowInfo", title |-> "Tag", value |-> "tags", key |-> "k",
     title_type |-> PyValueType("vtA"), value_type |-> PyValueType("vtB")] }

\* A row info with the given traits and child rows.
RowInfo(traits, rows) ==
    [cls |-> traits.cls, title |-> traits.title, value |-> traits.value,
     key |-> traits.key, title_type |-> traits.title_type,
     value_type |-> traits.value_type, rows |-> rows]

\* AbstractRowInfo.__iter__: the number of row infos it yields.
RECURSIVE NodeCount(_), NodeCountFrom(_, _)
NodeCount(node) == 1 + NodeCountFrom(node.rows, 1)
NodeCountFrom(rows, k) ==
    IF k > Len(rows) THEN 0 ELSE NodeCount(rows[k]) + NodeCountFrom(rows, k + 1)

\* The row paths (with indices from 0) of the row infos of a tree.
RECURSIVE ValidPaths(_)
ValidPaths(node) ==
    {<<>>} \cup UNION {{<<i - 1>> \o p : p \in ValidPaths(node.rows[i])} : i \in DOMAIN node.rows}

\* rows.append(child) on the row info at path.
RECURSIVE AppendAt(_, _, _)
AppendAt(node, path, child) ==
    IF path = <<>> THEN [node EXCEPT !.rows = Append(@, child)]
    ELSE [node EXCEPT !.rows[Head(path) + 1] = AppendAt(@, Tail(path), child)]

\* HasTraitsRowInfo.get_value
HasTraitsRowInfo_get_value(self, obj) ==
    Ret(xgetattr(obj, self.value, PyNone))

\* HasTraitsRowInfo.set_value: the result and the object afterwards.
HasTraitsRowInfo_set_value(self, obj, value) ==
    IF self.value = "" THEN [res |-> Ret(PyBool(FALSE)), obj |-> obj]
    ELSE [res |-> Ret(PyBool(TRUE)), obj |-> xsetattr(obj, self.value, value)]

\* DictRowInfo.get_value: data.get raises AttributeError when data is None
\* (or anything else without a get method).
DictRowInfo_get_value(self, obj) ==
    LET d == xgetattr(obj, self.value, PyNone)
    IN IF d.t = "dict" THEN Ret(DictGet(d.v, self.key)) ELSE Raise("AttributeError")

\* DictRowInfo.set_value: data[key] = value raises TypeError when data is
\* None (or anything else without item assignment).
DictRowInfo_set_value(self, obj, value) ==
    LET d == xgetattr(obj, self.value, PyNone)
    IN IF d.t = "dict"
       THEN [res |-> Ret(PyBool(TRUE)),
             obj |-> [obj EXCEPT ![self.value] = PyDict(DictSet(d.v, self.key, value))]]
       ELSE [res |-> Raise("TypeError"), obj |-> obj]

\* row_info.get_value(obj), dispatched on the class of the row info
RowInfo_get_value(self, obj) ==
    IF self.cls = "DictRowInfo" THEN DictRowInfo_get_value(self, obj)
    ELSE HasTraitsRowInfo_get_value(self, obj)

\* row_info.set_value(obj, value), dispatched on the class of the row info
RowInfo_set_value(self, obj, value) ==
    IF self.cls = "DictRowInfo" THEN DictRowInfo_set_value(self, obj, value)
    ELSE HasTraitsRowInfo_set_value(self, obj, value)

\* ---- ColumnDataModel ------------------------------------------------

\* The loop of _row_info_object from the k-th index of row on.
RECURSIVE RowWalk(_, _, _)
RowWalk(node, row, k) ==
    IF k > Len(row) THEN Ret(node)
    ELSE IF ~InRange(node.rows, row[k]) THEN Raise("IndexError")
    ELSE RowWalk(PyItem(node.rows, row[k]), row, k + 1)

\* A mutant of _row_info_object: every index is looked up in the rows of
\* the root (row_info = self.row_info.rows[index]).
row_info_object_from_root(root, row) ==
    IF Len(row) = 0 THEN Ret(root)
    ELSE IF \E k \in DOMAIN row : ~InRange(root.rows, row[k]) THEN Raise("IndexError")
    ELSE Ret(PyItem(root.rows, row[Len(row)]))

\* ColumnDataModel._row_info_object
row_info_object(root, row) == RowWalk(root, row, 1)

\* ColumnDataModel.get_column_count
get_column_count(root, objs, row) == Ret(PyInt(Len(objs)))

\* ColumnDataModel.can_have_children
can_have_children(root, objs, row) ==
    IF Len(row) = 0 THEN Ret(PyBool(TRUE))
    ELSE LET r == row_info_object(root, row)
         IN IF r.outcome = "raise" THEN r
            ELSE Ret(PyBool(Len(r.value.rows) # 0))

\* ColumnDataModel.get_row_count
get_row_count(root, objs, row) ==
    LET r == row_info_object(root, row)
    IN IF r.outcome = "raise" THEN r ELSE Ret(PyInt(Len(r.value.rows)))

\* A mutant of get_value: the object is chosen by the last index of the
\* column path (self.data[column[-1]]).
get_value_last_index(root, objs, row, column) ==
    LET r == row_info_object(root, row)
    IN IF r.outcome = "raise" THEN r
       ELSE IF Len(column) = 0 THEN Ret(PyStr(r.value.title))
       ELSE IF ~InRange(objs, column[Len(column)]) THEN Raise("IndexError")
       ELSE RowInfo_get_value(r.value, PyItem(objs, column[Len(column)]))

\* ColumnDataModel.get_value
get_value(root, objs, row, column) ==
    LET r == row_info_object(root, row)
    IN IF r.outcome = "raise" THEN r
       ELSE IF Len(column) = 0 THEN Ret(PyStr(r.value.title))
       ELSE IF ~InRange(objs, column[1]) THEN Raise("IndexError")
       ELSE RowInfo_get_value(r.value, PyItem(objs, column[1]))

\* Where objs[i] lives in the sequence
PyPos(seq, i) == IF i >= 0 THEN i + 1 ELSE Len(seq) + i + 1

\* ColumnDataModel.set_value: the result and the data afterwards.
set_value(root, objs, row, column, value) ==
    LET r == row_info_object(root, row)
    IN IF r.outcome = "raise" THEN [res |-> r, data |-> objs]
       ELSE IF Len(column) = 0 THEN [res |-> Ret(PyBool(FALSE)), data |-> objs]
       ELSE IF ~InRange(objs, column[1]) THEN [res |-> Raise("IndexError"), data |-> objs]
       ELSE LET s == RowInfo_set_value(r.value, PyItem(objs, column[1]), value)
            IN [res |-> s.res,
                data |-> [objs EXCEPT ![PyPos(objs, column[1])] = s.obj]]

\* ColumnDataModel.get_value_type
get_value_type(root, objs, row, column) ==
    LET r == row_info_object(root, row)
    IN IF r.outcome = "raise" THEN r
       ELSE IF Len(column) = 0 THEN Ret(r.value.title_type)
       ELSE Ret(r.value.value_type)

\* AbstractDataModel.can_set_value, which ColumnDataModel inherits: the
\* default takes the data as read-only.
can_set_value(root, objs, row, column) == Ret(PyBool(FALSE))

\* ---- AbstractValueType ----------------------------------------------

\* AbstractValueType.has_editor_value
has_editor_value(root, objs, row, column) == can_set_value(root, objs, row, column)

\* AbstractValueType.get_editor_value
get_editor_value(root, objs, row, column) == get_value(root, objs, row, column)

\* AbstractValueType.set_editor_value: the result of model.set_value is
\* dropped; the method returns None unless model.set_value raised.
set_editor_value(root, objs, row, column, value) ==
    LET s == set_value(root, objs, row, column, value)
    IN [res |-> IF s.res.outcome = "raise" THEN s.res ELSE Ret(PyNone),
        data |-> s.data]

\* AbstractValueType.get_text
get_text(root, objs, row, column) ==
    LET r == get_value(root, objs, row, column)
    IN IF r.outcome = "raise" THEN r ELSE Ret(PyStr(StrOf(r.value)))

\* AbstractValueType.has_text
has_text(root, objs, row, column) ==
    LET r == get_text(root, objs, row, column)
    IN IF r.outcome = "raise" THEN r ELSE Ret(PyBool(r.value # PyStr("")))

\* A mutant of set_text: the text is set as the value of the cell.
set_text_through_model(root, objs, row, column, text) ==
    set_editor_value(root, objs, row, column, text)

\* AbstractValueType.set_text
set_text(root, objs, row, column, text) ==
    [res |-> Raise("DataViewSetError"), data |-> objs]

\* AbstractValueType.has_color
has_color(root, objs, row, column) == Ret(PyBool(FALSE))

\* AbstractValueType.get_color: Color(rgba=(1.0, 1.0, 1.0, 1.0))
get_color(root, objs, row, column) == Ret([t |-> "Color", rgba |-> <<1, 1, 1, 1>>])

\* ---- the calls ------------------------------------------------------

\* The row info at a path of ValidPaths(node).
RECURSIVE Reach(_, _)
Reach(node, path) ==
    IF path = <<>> THEN node ELSE Reach(node.rows[Head(path) + 1], Tail(path))

\* The row paths passed to the methods: the path of every row info, and
\* each of them extended by -1 (the last child row; no row when there are
\* no child rows) and by the index after the last child row (no row).
RowPaths ==
    LET valid == ValidPaths(row_info)
    IN valid \cup {Append(p, -1) : p \in valid}
             \cup {Append(p, Len(Reach(row_info, p).rows)) : p \in valid}

\* The column paths passed to the methods: the row header (), the first
\* column, the last column, and the second column with a further index.
ColumnPaths == {<<>>, <<0>>, <<-1>>, <<1, 0>>}

\* The values and texts passed to the setters.
SetValues == {PyStr("y")}

\* The objects shown in columns: with a name and a tag, with an empty tags
\* dict and no name, and without either attribute.
ObjFull == [name |-> PyStr("x"), tags |-> PyDict(<< <<"k", PyStr("x")>> >>)]
ObjNoName == [tags |-> PyDict(<<>>)]
ObjBare == <<>>

DataMenu == {<<ObjFull>>, <<ObjBare, ObjFull>>, <<ObjNoName, ObjBare>>}

DvInit ==
    /\ QtRest
    /\ CdRest
    /\ row_info \in {RowInfo(traits, <<>>) : traits \in RowInfoMenu}
    /\ data \in DataMenu
    /\ dv_call = <<>>
    /\ dv_pc = "idle"
    /\ ev = <<>>

\* rows.append(...) on a row info of the tree (AbstractRowInfo.rows is a
\* List trait).
AppendRow(limit) ==
    /\ dv_pc = "idle"
    /\ NodeCount(row_info) < limit
    /\ \E path \in ValidPaths(row_info), traits \in RowInfoMenu :
          row_info' = AppendAt(row_info, path, RowInfo(traits, <<>>))
    /\ UNCHANGED <<data, dv_call, dv_pc>>
    /\ UNCHANGED <<qtVars, cdVars, ev>>

\* A call of a method that reads the model has ended with result r.
Called(op, row, column, r) ==
    /\ dv_pc = "idle"
    /\ dv_call' = [op |-> op, row |-> row, column |-> column, arg |-> PyNone,
                   outcome |-> r.outcome, value |-> r.value, exc |-> r.exc,
                   data_before |-> data]
    /\ dv_pc' = "called"
    /\ UNCHANGED <<row_info, data>>
    /\ UNCHANGED <<qtVars, cdVars, ev>>

\* A call of a setter has ended with result s.res and left the data s.data.
CalledSetter(op, row, column, arg, s) ==
    /\ dv_pc = "idle"
    /\ dv_call' = [op |-> op, row |-> row, column |-> column, arg |-> arg,
                   outcome |-> s.res.outcome, value |-> s.res.value, exc |-> s.res.exc,
                   data_before |-> data]
    /\ data' = s.data
    /\ dv_pc' = "called"
    /\ UNCHANGED row_info
    /\ UNCHANGED <<qtVars, cdVars, ev>>

Call_row_info_object ==
    \E row \in RowPaths :
        Called("_row_info_object", row, <<>>, row_info_object(row_info, row))

Call_get_column_count ==
    \E row \in RowPaths :
        Called("get_column_count", row, <<>>, get_column_count(row_info, data, row))

Call_can_have_children ==
    \E row \in RowPaths :
        Called("can_have_children", row, <<>>, can_have_children(row_info, data, row))

Call_get_row_count ==
    \E row \in RowPaths :
        Called("get_row_count", row, <<>>, get_row_count(row_info, data, row))

Call_get_value ==
    \E row \in RowPaths, column \in ColumnPaths :
        Called("get_value", row, column, get_value(row_info, data, row, column))

Call_get_value_type ==
    \E row \in RowPaths, column \in ColumnPaths :
        Called("get_value_type", row, column, get_value_type(row_info, data, row, column))

Call_has_editor_value ==
    \E row \in RowPaths, column \in ColumnPaths :
        Called("has_editor_value", row, column, has_editor_value(row_info, data, row, column))

Call_get_editor_value ==
    \E row \in RowPaths, column \in ColumnPaths :
        Called("get_editor_value", row, column, get_editor_value(row_info, data, row, column))

Call_set_editor_value ==
    \E row \in RowPaths, column \in ColumnPaths, value \in SetValues :
        CalledSetter("set_editor_value", row, column, value,
                     set_editor_value(row_info, data, row, column, value))

Call_has_text ==
    \E row \in RowPaths, column \in ColumnPaths :
        Called("has_text", row, column, has_text(row_info, data, row, column))

Call_get_text ==
    \E row \in RowPaths, column \in ColumnPaths :
        Called("get_text", row, column, get_text(row_info, data, row, column))

Call_set_text ==
    \E row \in RowPaths, column \in ColumnPaths, text \in SetValues :
        CalledSetter("set_text", row, column, text,
                     set_text(row_info, data, row, column, text))

Call_has_color ==
    \E row \in RowPaths, column \in ColumnPaths :
        Called("has_color", row, column, has_color(row_info, data, row, column))

Call_get_color ==
    \E row \in RowPaths, column \in ColumnPaths :
        Called("get_color", row, column, get_color(row_info, data, row, column))

\* The caller takes the result (or handles the exception) and goes on.
Resume ==
    /\ dv_pc = "called"
    /\ dv_call' = <<>>
    /\ dv_pc' = "idle"
    /\ UNCHANGED <<row_info, data>>
    /\ UNCHANGED <<qtVars, cdVars, ev>>

\* The row-info tree and the calls of ColumnDataModel.
RowsNext ==
    \/ AppendRow(MaxNodes)
    \/ Call_row_info_object
    \/ Call_get_column_count
    \/ Call_can_have_children
    \/ Call_get_row_count
    \/ Call_get_value
    \/ Call_get_value_type
    \/ Resume

\* The row-info tree and the channel methods of AbstractValueType.
ChannelsNext ==
    \/ AppendRow(MaxChannelNodes)
    \/ Call_has_editor_value
    \/ Call_get_editor_value
    \/ Call_set_editor_value
    \/ Call_has_text
    \/ Call_get_text
    \/ Call_set_text
    \/ Call_has_color
    \/ Call_get_color
    \/ Resume

(***************************************************************************)
(*        The updated events of the row-info tree (AbstractRowInfo)        *)
(***************************************************************************)

\* The largest number of row infos in the tree when events are fired.
MaxEventNodes == 4

\* The row info the event model builds its trees from, and the value names
\* its value trait is switched between.
EventRowInfoTraits == CHOOSE traits \in RowInfoMenu : traits.value = "name"
EventValueNames == {"name", ""}

\* A row info object: its traits, its child rows, and its identity.  Row
\* infos are HasTraits objects, which compare equal only to themselves.
RowInfoObject(traits, rows, id) ==
    [cls |-> traits.cls, title |-> traits.title, value |-> traits.value,
     key |-> traits.key, title_type |-> traits.title_type,
     value_type |-> traits.value_type, rows |-> rows, id |-> id]

\* rows.insert(k, child) on the row info at path (k counted from 0).
RECURSIVE InsertAt(_, _, _, _)
InsertAt(node, path, k, child) ==
    IF path = <<>>
    THEN [node EXCEPT !.rows = SubSeq(@, 1, k) \o <<child>> \o SubSeq(@, k + 1, Len(@))]
    ELSE [node EXCEPT !.rows[Head(path) + 1] = InsertAt(@, Tail(path), k, child)]

\* The value trait of the row info at path set to name.
RECURSIVE SetValueAt(_, _, _)
SetValueAt(node, path, name) ==
    IF path = <<>> THEN [node EXCEPT !.value = name]
    ELSE [node EXCEPT !.rows[Head(path) + 1] = SetValueAt(@, Tail(path), name)]

\* list.index(x): the index, from 0, of the first item equal to x.
ListIndex(seq, x) ==
    (CHOOSE k \in DOMAIN seq : seq[k] = x /\ \A j \in 1..(k - 1) : seq[j] # x) - 1

\* title_updated, value_type_updated and rows_updated: the row info at path
\* sets its updated event to (self, part, []).  The event remembers the
\* row info and the part it started from.
Fired(tree, path, part) ==
    [at |-> path, info |-> Reach(tree, path).id, part |-> part, row_index |-> <<>>,
     origin |-> Reach(tree, path).id, origin_part |-> part]

\* A mutant of row_item_updated: the index of the child is put after the
\* row index (row_index + [self.rows.index(row)]).
row_item_updated_appends(self, row, payload) ==
    [info |-> payload.info, part |-> payload.part,
     row_index |-> payload.row_index \o <<ListIndex(self.rows, row)>>]

\* AbstractRowInfo.row_item_updated: the payload self re-fires for the
\* payload (row_info, part, row_index) that its child row has fired.
row_item_updated(self, row, payload) ==
    [info |-> payload.info, part |-> payload.part,
     row_index |-> <<ListIndex(self.rows, row)>> \o payload.row_index]

EvInit ==
    /\ QtRest
    /\ CdRest
    /\ row_info = RowInfoObject(EventRowInfoTraits, <<>>, 1)
    /\ data = <<>>
    /\ dv_call = <<>>
    /\ dv_pc = "idle"
    /\ ev = <<>>

\* rows.insert(k, child) on a row info of the tree; rows_updated fires
\* (self, 'rows', []).
InsertRow ==
    /\ ev = <<>>
    /\ NodeCount(row_info) < MaxEventNodes
    /\ \E path \in ValidPaths(row_info) :
          \E k \in 0..Len(Reach(row_info, path).rows) :
             LET child == RowInfoObject(EventRowInfoTraits, <<>>, NodeCount(row_info) + 1)
                 tree == InsertAt(row_info, path, k, child)
             IN /\ row_info' = tree
                /\ ev' = Fired(tree, path, "rows")
    /\ UNCHANGED <<data, dv_call, dv_pc>>
    /\ UNCHANGED <<qtVars, cdVars>>

\* The title_type of a row info fires its updated event; title_updated
\* fires (self, 'title', []).
TitleTypeUpdated ==
    /\ ev = <<>>
    /\ \E path \in ValidPaths(row_info) : ev' = Fired(row_info, path, "title")
    /\ UNCHANGED <<row_info, data, dv_call, dv_pc>>
    /\ UNCHANGED <<qtVars, cdVars>>

\* The value trait of a row info is set to another name; the observer of
\* 'value' (HasTraitsRowInfo.value_type_updated) fires (self, 'value', []).
SetValueName ==
    /\ ev = <<>>
    /\ \E path \in ValidPaths(row_info) :
          \E name \in EventValueNames \ {Reach(row_info, path).value} :
             LET tree == SetValueAt(row_info, path, name)
             IN /\ row_info' = tree
                /\ ev' = Fired(tree, path, "value")
    /\ UNCHANGED <<data, dv_call, dv_pc>>
    /\ UNCHANGED <<qtVars, cdVars>>

\* The parent of the row info that has fired runs row_item_updated and
\* fires its own updated event.
Propagate ==
    /\ ev # <<>>
    /\ ev.at # <<>>
    /\ LET parent == SubSeq(ev.at, 1, Len(ev.at) - 1)
           self == Reach(row_info, parent)
           row == Reach(row_info, ev.at)
           fired == row_item_updated(self, row, ev)
       IN ev' = [at |-> parent, info |-> fired.info, part |-> fired.part,
                 row_index |-> fired.row_index,
                 origin |-> ev.origin, origin_part |-> ev.origin_part]
    /\ UNCHANGED <<row_info, data, dv_call, dv_pc>>
    /\ UNCHANGED <<qtVars, cdVars>>

\* The root has fired: its observers have the payload, and the trait change
\* that started the event returns.
Delivered ==
    /\ ev # <<>>
    /\ ev.at = <<>>
    /\ ev' = <<>>
    /\ UNCHANGED <<row_info, data, dv_call, dv_pc>>
    /\ UNCHANGED <<qtVars, cdVars>>

EventsNext ==
    \/ InsertRow
    \/ TitleTypeUpdated
    \/ SetValueName
    \/ Propagate
    \/ Delivered

SpecQt == QtInit /\ [][QtNext]_vars

SpecColor == CdInit /\ [][CdNext]_vars

SpecRows == DvInit /\ [][RowsNext]_vars

SpecChannels == DvInit /\ [][ChannelsNext]_vars

SpecEvents == EvInit /\ [][EventsNext]_vars

(***************************************************************************)
(*                 Properties of the Qt selector (SpecQt)                  *)
(***************************************************************************)

\* Module initialisation has ended, normally or with an exception.
QtEnded == qt_pc \in {"done", "raised"}

\* The selector called import on none of the bindings.
NoBindingImported == \A k \in DOMAIN import_log : import_log[k] \notin QtModules

QtApiSet == "QT_API" \in DOMAIN environ

\* C1: if no binding is in sys.modules, QT_API is unset and none of the
\* three bindings can be imported, initialisation ends by raising
\* ImportError.
C1_NoBackendRaisesImportError ==
    (QtEnded /\ Loaded = {} /\ ~QtApiSet /\ importable \cap QtModules = {})
        => (qt_pc = "raised" /\ qt_exc = "ImportError")

\* C2 as stated: with no binding in sys.modules and QT_API set, a valid
\* value makes the selector finish with qt_api equal to it without importing
\* a binding, and any other value raises RuntimeError.
C2_AsStated ==
    (QtEnded /\ Loaded = {} /\ QtApiSet)
        => IF environ["QT_API"] \in QtApiNames
           THEN /\ qt_pc = "done"
                /\ qt_api = PyStr(environ["QT_API"])
                /\ NoBindingImported
           ELSE qt_pc = "raised" /\ qt_exc = "RuntimeError"

\* C2 amended: with no binding in sys.modules and QT_API set to a valid
\* value, qt_api equals that value and no binding is imported; the selector
\* finishes, except that for 'pyqt' it ends with the ImportError of
\* prepare_pyqt4 when sip cannot be imported.  Any other value raises
\* RuntimeError.
C2_EnvironmentPreference ==
    (QtEnded /\ Loaded = {} /\ QtApiSet)
        => IF environ["QT_API"] \in QtApiNames
           THEN /\ qt_api = PyStr(environ["QT_API"])
                /\ NoBindingImported
                /\ \/ qt_pc = "done" /\ qt_exc = "None"
                   \/ /\ environ["QT_API"] = "pyqt"
                      /\ "sip" \notin importable
                      /\ qt_pc = "raised"
                      /\ qt_exc = "ImportError"
           ELSE qt_pc = "raised" /\ qt_exc = "RuntimeError"

\* C2 witnesses: QT_API=pyqt is taken without importing PyQt4.
C2_Witness ==
    /\ qt_pc = "done"
    /\ Loaded = {}
    /\ QtApiSet
    /\ environ["QT_API"] = "pyqt"
    /\ qt_api = PyStr("pyqt")
    /\ "PyQt4" \in importable

\* C3 as stated: when a binding is already in sys.modules, qt_api is the API
\* name of the first such module in QtAPIs order whatever QT_API is, and no
\* exception is raised.
C3_AsStated ==
    (QtEnded /\ Loaded # {} /\ NoBindingImported)
        => /\ qt_api = PyStr(QtAPIs[Min(Loaded)][1])
           /\ qt_pc = "done"
           /\ qt_exc = "None"

\* C3 amended: when a binding is already in sys.modules, qt_api is the API
\* name of the first such module in QtAPIs order whatever QT_API is, and no
\* exception is raised, except the ImportError of prepare_pyqt4 when that
\* API is 'pyqt' and sip cannot be imported.
C3_LoadedBindingWins ==
    (QtEnded /\ Loaded # {} /\ NoBindingImported)
        => /\ qt_api = PyStr(QtAPIs[Min(Loaded)][1])
           /\ \/ qt_pc = "done" /\ qt_exc = "None"
              \/ /\ qt_api = PyStr("pyqt")
                 /\ "sip" \notin importable
                 /\ qt_pc = "raised"
                 /\ qt_exc = "ImportError"

\* C3 witness: two bindings are loaded, QT_API names the later one (or is
\* invalid), and the earlier one is selected.
C3_Witness ==
    /\ qt_pc = "done"
    /\ Loaded = {2, 3}
    /\ QtApiSet
    /\ environ["QT_API"] \in {"pyqt", "wx"}
    /\ qt_api = PyStr("pyqt5")
    /\ NoBindingImported

(***************************************************************************)
(*                 Properties of get_color (SpecColor)                     *)
(***************************************************************************)

\* C4: get_color returns the dialog's colour if and only if open() returned
\* OK, and None for every other result.
C4_ReturnsColorIffOK ==
    cd_pc = "returned"
        => /\ cd_result = OK => cd_return = dialog.color
           /\ cd_result # OK => cd_return = PyNone
           /\ cd_return = dialog.color <=> cd_result = OK

\* C4 witness: the user picked another colour and cancelled; None came back.
C4_Witness ==
    /\ cd_pc = "returned"
    /\ cd_result = "CANCEL"
    /\ dialog.color # PyColor(cd_args.color)
    /\ cd_return = PyNone

\* C8: the dialog get_color opens has the given parent, the given colour as
\* its initial colour, and shows alpha exactly when show_alpha is true.
C8_DialogConfiguredFromArguments ==
    cd_pc = "constructed"
        => /\ "color" \in DOMAIN dialog /\ dialog.color = PyColor(cd_args.color)
           /\ "parent" \in DOMAIN dialog /\ dialog.parent = cd_args.parent
           /\ "show_alpha" \in DOMAIN dialog /\ dialog.show_alpha = cd_args.show_alpha

(***************************************************************************)
(*        Properties of ColumnDataModel and AbstractValueType              *)
(***************************************************************************)

\* A row path addresses an existing row info: each index is one of the rows
\* of the row info reached so far.
RECURSIVE Addresses(_, _)
Addresses(node, path) ==
    \/ path = <<>>
    \/ /\ InRange(node.rows, Head(path))
       /\ Addresses(PyItem(node.rows, Head(path)), Tail(path))

\* The row info a path addresses: the node itself for the empty path,
\* otherwise what the rest of the path addresses from rows[first index].
RECURSIVE NodeAt(_, _)
NodeAt(node, path) ==
    IF path = <<>> THEN node
    ELSE NodeAt(PyItem(node.rows, Head(path)), Tail(path))

\* A call has ended, with a row path that addresses a row info.
CalledOn(op) ==
    /\ dv_pc = "called"
    /\ dv_call.op = op
    /\ Addresses(row_info, dv_call.row)

Returned(v) == dv_call.outcome = "return" /\ dv_call.value = v

\* The cell of the call cannot be set through ColumnDataModel.set_value:
\* its column path is empty, or its row info is a HasTraitsRowInfo without
\* a value name.
CellCannotBeSet ==
    \/ dv_call.column = <<>>
    \/ /\ InRange(dv_call.data_before, dv_call.column[1])
       /\ NodeAt(row_info, dv_call.row).cls = "HasTraitsRowInfo"
       /\ NodeAt(row_info, dv_call.row).value = ""

\* C5: set_editor_value raises DataViewSetError when the value of the cell
\* cannot be set: for every cell with an empty column path and every cell of
\* a HasTraitsRowInfo with an empty value name.
C5_SetEditorValueRaises ==
    (CalledOn("set_editor_value") /\ CellCannotBeSet)
        => (dv_call.outcome = "raise" /\ dv_call.exc = "DataViewSetError")

\* C6: the 'has' and 'get' channel methods never raise, whatever the model
\* holds and whatever row path and column path they are given.
C6_HasAndGetNeverRaise ==
    (/\ dv_pc = "called"
     /\ dv_call.op \in {"has_editor_value", "get_editor_value", "has_text",
                        "get_text", "has_color", "get_color"})
        => dv_call.outcome = "return"

\* C7: the default set_text raises DataViewSetError for every model, row,
\* column and text, and leaves the data objects as they were (no method
\* writes the row-info tree).
C7_SetTextRaisesAndKeepsModel ==
    (dv_pc = "called" /\ dv_call.op = "set_text")
        => /\ dv_call.outcome = "raise"
           /\ dv_call.exc = "DataViewSetError"
           /\ data = dv_call.data_before

\* C7 witness: set_text was called on a cell whose value set_editor_value
\* can set (a HasTraitsRowInfo with a value name, first column), and raised.
C7_Witness ==
    /\ CalledOn("set_text")
    /\ dv_call.column = <<0>>
    /\ NodeAt(row_info, dv_call.row).cls = "HasTraitsRowInfo"
    /\ NodeAt(row_info, dv_call.row).value = "name"
    /\ dv_call.exc = "DataViewSetError"
    /\ data = dv_call.data_before

\* C9: for a row path that addresses an existing row info, _row_info_object
\* is the row info reached from the root by following rows[i] for the
\* indices in order, get_row_count is its number of child rows, and
\* can_have_children is True for the empty path and otherwise
\* get_row_count(row) != 0; get_column_count is len(data) for every row.
C9_RowAddressing ==
    /\ CalledOn("_row_info_object") => Returned(NodeAt(row_info, dv_call.row))
    /\ CalledOn("get_row_count")
          => Returned(PyInt(Len(NodeAt(row_info, dv_call.row).rows)))
    /\ CalledOn("can_have_children")
          => Returned(PyBool(\/ dv_call.row = <<>>
                             \/ Len(NodeAt(row_info, dv_call.row).rows) # 0))
    /\ (dv_pc = "called" /\ dv_call.op = "get_column_count")
          => Returned(PyInt(Len(data)))

\* C9 witness: a path of two indices reached a grandchild of the root, which
\* is another row info than the root's child at the last index.
C9_Witness ==
    /\ CalledOn("_row_info_object")
    /\ Len(dv_call.row) = 2
    /\ dv_call.outcome = "return"
    /\ dv_call.value = row_info.rows[1].rows[1]
    /\ dv_call.value # row_info.rows[1]

\* The object a non-empty column path selects: data[column[0]].
ColumnObject == PyItem(data, dv_call.column[1])

\* A call on a cell that exists: the row path addresses a row info and the
\* column path is empty or starts with the index of a data object.
CalledOnCell(op) ==
    /\ CalledOn(op)
    /\ dv_call.column # <<>> => InRange(data, dv_call.column[1])

\* getattr(obj, name, None)
AttributeOrNone(obj, name) == IF name \in DOMAIN obj THEN obj[name] ELSE PyNone

\* The header cells and the value types, as C10 states them.
C10_TitlesAndTypes ==
    /\ (CalledOn("get_value") /\ dv_call.column = <<>>)
          => Returned(PyStr(NodeAt(row_info, dv_call.row).title))
    /\ (CalledOn("get_value_type") /\ dv_call.column = <<>>)
          => Returned(NodeAt(row_info, dv_call.row).title_type)
    /\ (CalledOn("get_value_type") /\ dv_call.column # <<>>)
          => Returned(NodeAt(row_info, dv_call.row).value_type)

\* C10 as stated: with an empty column path get_value and get_value_type
\* return the title and title_type of the addressed row info; with a
\* non-empty column path get_value returns the attribute named by the row
\* info, read from data[column[0]] (None if absent), and get_value_type the
\* value_type; later column indices are ignored.
C10_AsStated ==
    /\ C10_TitlesAndTypes
    /\ (CalledOnCell("get_value") /\ dv_call.column # <<>>)
          => Returned(AttributeOrNone(ColumnObject, NodeAt(row_info, dv_call.row).value))

\* C10 amended: as stated for a HasTraitsRowInfo; for a DictRowInfo
\* get_value returns the item under the row info's key of the dict that the
\* named attribute holds (None if the key is absent), and raises
\* AttributeError when the object has no such attribute.
C10_ValuesAndTypes ==
    /\ C10_TitlesAndTypes
    /\ (CalledOnCell("get_value") /\ dv_call.column # <<>>)
          => LET info == NodeAt(row_info, dv_call.row)
                 attr == AttributeOrNone(ColumnObject, info.value)
             IN CASE info.cls = "HasTraitsRowInfo" -> Returned(attr)
                  [] info.cls = "DictRowInfo" /\ attr = PyNone ->
                        dv_call.outcome = "raise" /\ dv_call.exc = "AttributeError"
                  [] info.cls = "DictRowInfo" /\ attr # PyNone ->
                        /\ dv_call.outcome = "return"
                        /\ \/ <<info.key, dv_call.value>> \in {attr.v[k] : k \in DOMAIN attr.v}
                           \/ /\ dv_call.value = PyNone
                              /\ \A k \in DOMAIN attr.v : attr.v[k][1] # info.key

\* C10 witness: get_value with the column path (1, 0) returned the name of
\* the second object, which the first object does not have.
C10_Witness ==
    /\ CalledOnCell("get_value")
    /\ dv_call.column = <<1, 0>>
    /\ NodeAt(row_info, dv_call.row).cls = "HasTraitsRowInfo"
    /\ dv_call.value = PyStr("x")
    /\ "name" \notin DOMAIN data[1]

(***************************************************************************)
(*              Properties of the updated events (SpecEvents)              *)
(***************************************************************************)

\* The row info with the given identity is the one a row path addresses
\* from node.
ReachesObject(node, path, id) ==
    Addresses(node, path) /\ NodeAt(node, path).id = id

====
